---- MODULE Spec2Model ----
(***************************************************************************)
(* Model of bpy_mcp_addon: the cross-thread task scheduler                 *)
(* (src/task_queue.py) and the TCP listener (src/listener.py).             *)
(*                                                                         *)
(* Threads of the program:                                                 *)
(*   - the host (Blender main) thread, on which bpy.app.timers calls       *)
(*     task_queue._runner;                                                 *)
(*   - the server thread "BPY-MCP-Server", which runs one asyncio event    *)
(*     loop; every connection is a coroutine of that loop;                 *)
(*   - executor threads that block in fut.result() for a coroutine;        *)
(*   - the control side that calls start_server / stop_server.             *)
(*                                                                         *)
(* listener.py cannot be imported without bpy (it imports task_queue,      *)
(* which imports bpy unconditionally), so the "test mode" branches         *)
(* (bpy is None) are dead and are not modelled.                            *)
(***************************************************************************)
EXTENDS Integers, Sequences, FiniteSets, TLC

(***************************************************************************)
(* Bounds of the model (not program constants).                            *)
(***************************************************************************)
MaxTasks == 3      \* tasks submitted in all (SpecSched)
NumConns == 2      \* connections the clients open
MaxMsgs == 2       \* frames the clients send in all
MaxLifeMsgs == 1   \* frames the clients send in the runs that stop the server
MaxWrites == 2     \* writes to sys.stdout made by one piece of client code
MaxStarts == 2     \* calls of start_server that create a thread
NumCallers == 2    \* threads that call submit side by side (SpecSubmit)

\* Python None / JSON null / no task / no connection
None == 0

Conns == 1..NumConns
Threads == 1..MaxStarts
Callers == 1..NumCallers

VARIABLES
  \* ---- task_queue.py
  TASKS,          \* _TASKS: FIFO of task ids
  timers,         \* how many times _runner is registered with bpy.app.timers
  spc,            \* spc[k]: where caller k stands inside task_queue.submit
  task,           \* task[t]: the work (func) of the t-th submitted task
  fut,            \* fut[t]: state of the t-th task's concurrent.futures.Future
  val,            \* val[t]: the value func() returned (the captured output)
  rpc,            \* position of the host thread in _runner
  rcur,           \* the task whose func() the host thread is executing
  rpos,           \* writes of the running client code already made
  rfail,          \* the running client code got an exception from a write
  started,        \* history: task ids in the order their func() was invoked
  escaped,        \* history: tasks whose failure propagated out of _runner
  \* ---- process-wide standard output
  sys_stdout,     \* the object sys.stdout is bound to
  buf,            \* buf[t]: content of the io.StringIO made by task t
  \* ---- listener.py globals and the server thread
  server_thread,  \* _server_thread: a thread id or None
  server_loop,    \* _server_loop: the thread whose loop is published, or None
  current_token,  \* _current_token
  connections,    \* _connections
  tstate,         \* tstate[i]: where the i-th server thread is
  runs,           \* runs[i]: the loop thread i runs (loops are numbered by
                  \* the thread that made them), or None
  lclosed,        \* lclosed[l]: loop l has been closed
  stopReq,        \* stopReq[l]: loop.stop() was scheduled on loop l
  nstarts,        \* number of server threads created so far
  tokenAuth,      \* history: prefs.require_token when thread i set the token
  ctl,            \* position of the control side inside stop_server
  \* ---- one BPYMCPProtocol per connection
  pc,             \* where the coroutine of handle_connection is
  owner,          \* the server thread whose loop runs the coroutine
  authenticated,  \* self.authenticated
  req,            \* the request being processed (message_id, code, ...)
  wt,             \* the task whose future the coroutine awaits
  spos,           \* writes of the streaming client code already made
  old_stdout,     \* old_stdout of execute_code_streaming
  wclosed,        \* self.writer.close() has been called
  backlog,        \* connections whose transport holds bytes not yet sent
  wire,           \* history: the frames handed to self.writer.write, in order
  sent,           \* history: the bytes handed to self.writer.write, in order
  \* ---- the event loop
  cur,            \* the coroutine that holds the loop thread, or None
  chunkq,         \* tasks made by asyncio.create_task(send_callback(chunk))
  \* ---- environment and history
  nmsgs,          \* frames the clients have sent so far
  nreq,           \* nreq[c]: frames read on connection c
  goodTok,        \* history: c received a token equal to _current_token
  rxform,         \* history: the form of the last frame read on c
  touched         \* history: who executed handler bodies and client code

schedVars == <<TASKS, timers, spc, task, fut, val, rpc, rcur, rpos, rfail,
               started, escaped>>
outVars == <<sys_stdout, buf>>
srvVars == <<server_thread, server_loop, current_token, connections, tstate,
             runs, lclosed, stopReq, nstarts, tokenAuth, ctl>>
connVars == <<pc, owner, authenticated, req, wt, spos, old_stdout, wclosed,
              backlog, wire, sent>>
loopVars == <<cur, chunkq>>
envVars == <<nmsgs, nreq, goodTok, rxform, touched>>

vars == <<schedVars, outVars, srvVars, connVars, loopVars, envVars>>

(***************************************************************************)
(* What a piece of work does when it is invoked:                           *)
(*   "ok"   it returns a value;                                            *)
(*   "exc"  it raises an Exception;                                        *)
(*   "base" it raises a BaseException that is not an Exception             *)
(*          (client code: raise KeyboardInterrupt).                        *)
(* Client code also writes to sys.stdout before it ends: "text" is a       *)
(* write with a non-blank string, "blank" one with s.strip() empty.        *)
(***************************************************************************)
Outcomes == {"ok", "exc", "base"}

RECURSIVE SeqsUpTo(_, _)
SeqsUpTo(S, n) ==
  IF n = 0 THEN {<<>>}
  ELSE LET R == SeqsUpTo(S, n - 1) IN
       R \cup {Append(r, x) : r \in {q \in R : Len(q) = n - 1}, x \in S}

WriteSeqs == SeqsUpTo({"text", "blank"}, MaxWrites)

Work(o) ==
  [conn |-> None, req |-> None, kind |-> "work", writes |-> <<>>, outcome |-> o]

\* what sys.stdout can be bound to
Orig == [k |-> "orig", n |-> None]   \* the stream installed at import time
Buf(t) == [k |-> "buf", n |-> t]     \* stdout_capture of _do_exec in task t
Cap(c) == [k |-> "cap", n |-> c]     \* StreamingCapture of connection c

\* one write as recorded in a buffer: who wrote (k, n), which write, what
Written(k, n, i, w) == [k |-> k, n |-> n, i |-> i, w |-> w]

(***************************************************************************)
(* concurrent.futures.Future.set_result / set_exception: a future that is  *)
(* CANCELLED or FINISHED raises InvalidStateError and keeps its state.     *)
(***************************************************************************)
CanSet(f) == f = "pending"

(***************************************************************************)
(* task_queue.submit: put the task, register _runner if it is not          *)
(***************************************************************************)
Put(w) ==
  /\ task' = Append(task, w)
  /\ fut' = Append(fut, "pending")
  /\ val' = Append(val, <<>>)
  /\ buf' = Append(buf, <<>>)
  /\ TASKS' = Append(TASKS, Len(task) + 1)

\* submit line 38: bpy.app.timers.is_registered(_runner)
registered == timers > 0

\* submit, lines 36-40, run without another thread in between
SubmitTask(w) ==
  /\ Put(w)
  /\ timers' = IF registered THEN timers ELSE 1

\* a caller of task_queue.submit outside the listener
Submit ==
  /\ Len(task) < MaxTasks
  /\ \E o \in Outcomes : SubmitTask(Work(o))
  /\ UNCHANGED <<spc, rpc, rcur, rpos, rfail, started, escaped, sys_stdout>>
  /\ UNCHANGED <<srvVars, connVars, loopVars, envVars>>

(***************************************************************************)
(* task_queue.submit called by threads side by side: the put of line 37,   *)
(* the test of line 38 and the register of line 39 are separate steps of   *)
(* caller k.  bpy.app.timers.register appends an entry for the function    *)
(* whether or not one is there already.                                    *)
(***************************************************************************)
SubmitPut(k) ==
  /\ spc[k] = "idle"
  /\ Len(task) < MaxTasks
  /\ \E o \in Outcomes : Put(Work(o))
  /\ spc' = [spc EXCEPT ![k] = "check"]
  /\ UNCHANGED <<timers, rpc, rcur, rpos, rfail, started, escaped, sys_stdout>>
  /\ UNCHANGED <<srvVars, connVars, loopVars, envVars>>

SubmitCheck(k) ==
  /\ spc[k] = "check"
  /\ spc' = [spc EXCEPT ![k] = IF registered THEN "idle" ELSE "register"]
  /\ UNCHANGED <<TASKS, timers, task, fut, val, rpc, rcur, rpos, rfail,
                 started, escaped>>
  /\ UNCHANGED <<outVars, srvVars, connVars, loopVars, envVars>>

SubmitRegister(k) ==
  /\ spc[k] = "register"
  /\ timers' = timers + 1
  /\ spc' = [spc EXCEPT ![k] = "idle"]
  /\ UNCHANGED <<TASKS, task, fut, val, rpc, rcur, rpos, rfail, started, escaped>>
  /\ UNCHANGED <<outVars, srvVars, connVars, loopVars, envVars>>

\* Future.cancel() by the holder of the future returned by submit
Cancel ==
  /\ \E t \in 1..Len(fut) :
       /\ fut[t] = "pending"
       /\ fut' = [fut EXCEPT ![t] = "cancelled"]
  /\ UNCHANGED <<TASKS, timers, spc, task, val, rpc, rcur, rpos, rfail,
                 started, escaped>>
  /\ UNCHANGED <<outVars, srvVars, connVars, loopVars, envVars>>

\* the host's idle tick calls the registered timer (a tick that finds the
\* queue empty returns at once and changes nothing)
TimerFire ==
  /\ registered
  /\ rpc = "idle"
  /\ TASKS # <<>>
  /\ rpc' = "loop"
  /\ UNCHANGED <<TASKS, timers, spc, task, fut, val, rcur, rpos, rfail,
                 started, escaped>>
  /\ UNCHANGED <<outVars, srvVars, connVars, loopVars, envVars>>

(***************************************************************************)
(* _runner: one iteration of the while loop up to and including the call   *)
(* of func().  _do_exec of execute_code binds sys.stdout to a new StringIO *)
(* before it runs the client code.                                         *)
(***************************************************************************)
RunnerPop ==
  /\ rpc = "loop"
  /\ TASKS # <<>>
  /\ TASKS' = Tail(TASKS)
  /\ IF fut[Head(TASKS)] = "cancelled"
       THEN UNCHANGED <<rpc, rcur, started, sys_stdout, touched>>
       ELSE /\ rpc' = "run"
            /\ rcur' = Head(TASKS)
            /\ started' = Append(started, Head(TASKS))
            /\ touched' = touched \cup
                 {[thread |-> "host", kind |-> task[Head(TASKS)].kind]}
            /\ sys_stdout' = IF task[Head(TASKS)].kind = "code"
                               THEN Buf(Head(TASKS)) ELSE sys_stdout
  /\ rpos' = 0
  /\ rfail' = FALSE
  /\ UNCHANGED <<timers, spc, task, fut, val, escaped, buf>>
  /\ UNCHANGED <<srvVars, connVars, loopVars, nmsgs, nreq, goodTok, rxform>>

(***************************************************************************)
(* One print of client code run by _do_exec on the host thread.  The write *)
(* goes to whatever sys.stdout is bound to at that moment.  A non-blank    *)
(* write into a StreamingCapture calls asyncio.create_task on a thread     *)
(* without a running loop, which raises RuntimeError into the client code. *)
(***************************************************************************)
RunnerWrite ==
  /\ rpc = "run"
  /\ task[rcur].kind = "code"
  /\ ~rfail
  /\ rpos < Len(task[rcur].writes)
  /\ rpos' = rpos + 1
  /\ IF sys_stdout.k = "buf"
       THEN /\ buf' = [buf EXCEPT ![sys_stdout.n] =
                 Append(@, Written("task", rcur, rpos + 1, task[rcur].writes[rpos + 1]))]
            /\ UNCHANGED rfail
       ELSE /\ rfail' = (sys_stdout.k = "cap" /\ task[rcur].writes[rpos + 1] = "text")
            /\ UNCHANGED buf
  /\ UNCHANGED <<TASKS, timers, spc, task, fut, val, rpc, rcur, started,
                 escaped, sys_stdout>>
  /\ UNCHANGED <<srvVars, connVars, loopVars, envVars>>

(***************************************************************************)
(* _runner: func() finishes; try: fut.set_result(func())                   *)
(*          except Exception as exc: fut.set_exception(exc)                *)
(* r is what func() did.  An exception that leaves _runner makes the host  *)
(* drop the timer (bpy.app.timers removes a callback that raised).         *)
(***************************************************************************)
\* RunnerEscapes of a _runner without the except clause of line 27
RunnerEscapesUncaught(r, f) ==
  \/ r \in {"base", "exc"}
  \/ r = "ok" /\ ~CanSet(f)

RunnerEscapes(r, f) ==
  \/ r = "base"
  \/ r \in {"ok", "exc"} /\ ~CanSet(f)

\* RunnerSets with a future that lets a completed state be overwritten
RunnerSetsOverwrites(r, f) ==
  IF r = "ok" THEN "result"
  ELSE IF r = "exc" THEN "exception"
  ELSE f

RunnerSets(r, f) ==
  IF ~CanSet(f) THEN f
  ELSE IF r = "ok" THEN "result"
  ELSE IF r = "exc" THEN "exception"
  ELSE f

\* what func() of the running task does: its own outcome, or the exception
\* one of its writes raised
RunnerOutcome ==
  IF rfail THEN "exc"
  ELSE IF task[rcur].outcome = "unser" THEN "ok"
  ELSE task[rcur].outcome

RunnerFinish ==
  /\ rpc = "run"
  /\ rfail \/ rpos = Len(task[rcur].writes)
  /\ fut' = [fut EXCEPT ![rcur] = RunnerSets(RunnerOutcome, @)]
  /\ val' = [val EXCEPT ![rcur] =
               IF RunnerOutcome = "ok" /\ CanSet(fut[rcur]) THEN buf[rcur] ELSE @]
  /\ IF RunnerEscapes(RunnerOutcome, fut[rcur])
       THEN /\ rpc' = "idle"
            /\ timers' = timers - 1
            /\ escaped' = escaped \cup {rcur}
       ELSE /\ rpc' = "loop"
            /\ UNCHANGED <<timers, escaped>>
  /\ rcur' = None
  /\ rpos' = 0
  /\ rfail' = FALSE
  /\ UNCHANGED <<TASKS, spc, task, started>>
  /\ UNCHANGED <<outVars, srvVars, connVars, loopVars, envVars>>

\* _runner: the queue is empty, return 0.0 (stay registered)
RunnerReturn ==
  /\ rpc = "loop"
  /\ TASKS = <<>>
  /\ rpc' = "idle"
  /\ UNCHANGED <<TASKS, timers, spc, task, fut, val, rcur, rpos, rfail,
                 started, escaped>>
  /\ UNCHANGED <<outVars, srvVars, connVars, loopVars, envVars>>

(***************************************************************************)
(* The wire.  A response is the JSON object handed to json.dumps; a field  *)
(* the object does not have is "absent", a field that is None is "null".   *)
(* id is the request id (None for JSON null), chunk the number of the      *)
(* write a chunk carries (None: no chunk field), data the captured text.   *)
(***************************************************************************)
Response ==
  [id |-> None, error |-> "absent", output |-> "absent", result |-> "absent",
   stream_end |-> "absent", authenticated |-> "absent", chunk |-> None,
   data |-> <<>>]

\* process_message, lines 94-97
MissingIdResponse == [Response EXCEPT !.error = "missing_id"]

\* process_message, lines 104-108
AuthMissingResponse(id) ==
  [Response EXCEPT !.id = id, !.error = "auth_missing", !.authenticated = "false"]

\* process_message, lines 111-115
AuthFailedResponse(id) ==
  [Response EXCEPT !.id = id, !.error = "auth_failed", !.authenticated = "false"]

\* AuthOkResponse of a message that falls through to the directive check
AuthOkFallsThrough(id) ==
  [Response EXCEPT !.id = id, !.authenticated = "true",
                   !.error = "missing_directive"]

\* process_message, lines 121-125
AuthOkResponse(id) == [Response EXCEPT !.id = id, !.authenticated = "true"]

\* process_message, lines 135-141
HandlerResponse(id) ==
  [Response EXCEPT !.id = id, !.error = "null", !.output = "str",
                   !.result = "value", !.stream_end = "true"]

\* HandlerFailedResponse without the stream_end field
HandlerFailedNoStreamEnd(id) ==
  [Response EXCEPT !.id = id, !.error = "handler_failed", !.output = "null"]

\* process_message, lines 143-148
HandlerFailedResponse(id) ==
  [Response EXCEPT !.id = id, !.error = "handler_failed", !.output = "null",
                   !.stream_end = "true"]

\* process_message, lines 163-168
CodeResponse(id, out) ==
  [Response EXCEPT !.id = id, !.error = "null", !.output = "str",
                   !.stream_end = "true", !.data = out]

\* MissingDirectiveResponse that does not echo the id
MissingDirectiveNoId(id) == [Response EXCEPT !.error = "missing_directive"]

\* process_message, lines 171-174
MissingDirectiveResponse(id) ==
  [Response EXCEPT !.id = id, !.error = "missing_directive"]

\* process_message, lines 177-180
InvalidJsonResponse == [Response EXCEPT !.error = "invalid_json"]

\* process_message, lines 182-185
InternalErrorResponse == [Response EXCEPT !.error = "internal"]

\* StreamingCapture.write, lines 982-986
ChunkResponse(id, i) ==
  [Response EXCEPT !.id = id, !.chunk = i, !.stream_end = "false"]

\* execute_code_streaming, lines 1002-1007
FinalResponse(id) ==
  [Response EXCEPT !.id = id, !.error = "null", !.output = "str",
                   !.stream_end = "true"]

\* execute_code_streaming, lines 1015-1020
ErrorResponse(id) ==
  [Response EXCEPT !.id = id, !.error = "exec_error", !.output = "null",
                   !.stream_end = "true"]

\* send_response, lines 1077-1082: the fallback sent when the check of
\* _check_json_serializable fails; its error text holds the path and the
\* type of the value that cannot be serialized
FallbackResponse(id) ==
  [Response EXCEPT !.id = id, !.error = "serialization_at_path",
                   !.output = "null", !.stream_end = "true"]

(***************************************************************************)
(* The frames a client can send.                                           *)
(*   form: "eof"     the peer closes at a frame boundary                   *)
(*         "trunc"   the stream ends inside the length or the payload      *)
(*         "badutf8" a whole frame whose payload is not UTF-8              *)
(*         "badjson" a whole frame whose payload is UTF-8 but not JSON     *)
(*         "obj"     a whole frame holding a JSON object                   *)
(*   dir:  "none" no code and no handler, "handler" a handler of the       *)
(*         registry, "unknown" a handler name that is not routed, "code"   *)
(*         code without stream, "stream" code with stream true, "both" a   *)
(*         handler of the registry and code, "bothstream" the same with    *)
(*         stream true                                                     *)
(*   writes, outcome: what the handler body or the client code does        *)
(***************************************************************************)
TokAbsent == -1     \* the message has no token field
TokBad == -2        \* a token string that no start generated

Msg(f, h, t, d, w, o) ==
  [form |-> f, hasId |-> h, token |-> t, dir |-> d, writes |-> w, outcome |-> o]

\* a handler body returns a result ("unser": one that json.dumps rejects) or
\* fails with an Exception; client code can raise anything
Directives ==
  {<<"none", <<>>, "ok">>, <<"unknown", <<>>, "ok">>}
  \cup {<<"handler", <<>>, o>> : o \in {"ok", "exc", "unser"}}
  \cup {<<d, w, o>> : d \in {"code", "stream"}, w \in WriteSeqs, o \in Outcomes}
  \cup {<<d, <<"text">>, "ok">> : d \in {"both", "bothstream"}}

\* the token strings a client can send: none, a wrong one, one a start made
MsgTokens == {TokAbsent, TokBad} \cup 1..nstarts

Msgs ==
  {Msg(f, FALSE, TokAbsent, "none", <<>>, "ok") :
     f \in {"eof", "trunc", "badutf8", "badjson"}}
  \cup {Msg("obj", h, t, d[1], d[2], d[3]) :
          h \in BOOLEAN, t \in MsgTokens, d \in Directives}

\* the frames sent in the runs that also stop and restart the server
LifeMsgs ==
  {Msg("eof", FALSE, TokAbsent, "none", <<>>, "ok")}
  \cup {Msg("obj", TRUE, t, d[1], d[2], d[3]) :
          t \in MsgTokens,
          d \in {<<"none", <<>>, "ok">>, <<"handler", <<>>, "ok">>,
                 <<"code", <<"text">>, "ok">>, <<"stream", <<"text">>, "ok">>}}

NoReq == [id |-> None, dir |-> "none", writes |-> <<>>, outcome |-> "ok"]

(***************************************************************************)
(* process_message, lines 102-117: the authentication check of a message   *)
(* that has an id.  auth is self.authenticated, tok is _current_token.     *)
(***************************************************************************)
\* AuthCheck that never compares the token with _current_token
AuthCheckNoCompare(m, auth, tok) ==
  IF auth THEN "pass"
  ELSE IF m.token = TokAbsent THEN "missing"
  ELSE "accept"

\* AuthCheck that checks the token of every message
AuthCheckEveryMessage(m, auth, tok) ==
  IF m.token = TokAbsent THEN "missing"
  ELSE IF tok # None /\ m.token # tok THEN "failed"
  ELSE IF auth THEN "pass"
  ELSE "accept"

AuthCheck(m, auth, tok) ==
  IF auth THEN "pass"
  ELSE IF m.token = TokAbsent THEN "missing"
  ELSE IF tok # None /\ m.token # tok THEN "failed"
  ELSE "accept"

\* Directive that looks at the code field before the handler field
DirectiveCodeFirst(m) ==
  IF m.dir = "both" THEN "code"
  ELSE IF m.dir = "bothstream" THEN "stream"
  ELSE m.dir

\* process_message lines 128, 150, 153: the branch a message takes;
\* 'handler' in message is tested first, code and stream only in its elif
Directive(m) ==
  IF m.dir \in {"both", "bothstream"} THEN "handler" ELSE m.dir

(***************************************************************************)
(* process_message: what the coroutine does with a whole frame, up to its  *)
(* first suspension.  do: "reply" return a response, "submit" submit a     *)
(* task and await its future, "stream" run execute_code_streaming.         *)
(***************************************************************************)
\* process_message with the authentication check ahead of the id check
ProcessMessageAuthFirst(m, id, auth, tok) ==
  IF m.form = "badjson" THEN
    [do |-> "reply", auth |-> auth, resp |-> InvalidJsonResponse]
  ELSE IF AuthCheck(m, auth, tok) = "missing" THEN
    [do |-> "reply", auth |-> auth, resp |-> AuthMissingResponse(id)]
  ELSE IF AuthCheck(m, auth, tok) = "failed" THEN
    [do |-> "reply", auth |-> auth, resp |-> AuthFailedResponse(id)]
  ELSE IF ~m.hasId THEN
    [do |-> "reply", auth |-> TRUE, resp |-> MissingIdResponse]
  ELSE IF AuthCheck(m, auth, tok) = "accept" /\ m.dir = "none" THEN
    [do |-> "reply", auth |-> TRUE, resp |-> AuthOkResponse(id)]
  ELSE IF Directive(m) = "handler" THEN
    [do |-> "submit", auth |-> TRUE, resp |-> Response]
  ELSE IF Directive(m) = "unknown" THEN
    [do |-> "reply", auth |-> TRUE, resp |-> HandlerFailedResponse(id)]
  ELSE IF Directive(m) = "code" THEN
    [do |-> "submit", auth |-> TRUE, resp |-> Response]
  ELSE IF Directive(m) = "stream" THEN
    [do |-> "stream", auth |-> TRUE, resp |-> Response]
  ELSE
    [do |-> "reply", auth |-> TRUE, resp |-> MissingDirectiveResponse(id)]

ProcessMessage(m, id, auth, tok) ==
  IF m.form = "badjson" THEN
    [do |-> "reply", auth |-> auth, resp |-> InvalidJsonResponse]
  ELSE IF ~m.hasId THEN
    [do |-> "reply", auth |-> auth, resp |-> MissingIdResponse]
  ELSE IF AuthCheck(m, auth, tok) = "missing" THEN
    [do |-> "reply", auth |-> auth, resp |-> AuthMissingResponse(id)]
  ELSE IF AuthCheck(m, auth, tok) = "failed" THEN
    [do |-> "reply", auth |-> auth, resp |-> AuthFailedResponse(id)]
  ELSE IF AuthCheck(m, auth, tok) = "accept" /\ m.dir = "none" THEN
    [do |-> "reply", auth |-> TRUE, resp |-> AuthOkResponse(id)]
  ELSE IF Directive(m) = "handler" THEN
    [do |-> "submit", auth |-> TRUE, resp |-> Response]
  ELSE IF Directive(m) = "unknown" THEN
    [do |-> "reply", auth |-> TRUE, resp |-> HandlerFailedResponse(id)]
  ELSE IF Directive(m) = "code" THEN
    [do |-> "submit", auth |-> TRUE, resp |-> Response]
  ELSE IF Directive(m) = "stream" THEN
    [do |-> "stream", auth |-> TRUE, resp |-> Response]
  ELSE
    [do |-> "reply", auth |-> TRUE, resp |-> MissingDirectiveResponse(id)]

\* the thread's event loop is running callbacks
LoopRuns(i) == i # None /\ tstate[i] = "serving"

\* chunk tasks of connection c wait in the loop's ready queue
ChunksPending(c) == \E k \in 1..Len(chunkq) : chunkq[k].conn = c

(***************************************************************************)
(* The coroutine of c can take its next step: it holds the loop thread, or *)
(* the thread is free and every task that was ready before the coroutine   *)
(* suspended (the chunk tasks it created) has had its turn.                *)
(***************************************************************************)
CanRun(c) ==
  /\ LoopRuns(owner[c])
  /\ \/ cur = c
     \/ cur = None /\ ~ChunksPending(c)

\* a thread other than i is inside run_until_complete of loop l
RunsElsewhere(i, l) ==
  \E j \in Threads : j # i /\ tstate[j] = "serving" /\ runs[j] = l

(***************************************************************************)
(* run_server_in_thread line 1188: thread i has left run_until_complete    *)
(* and calls close() on the loop that the global _server_loop names at     *)
(* that moment, which need not be the loop it made.  When the global is    *)
(* None the call raises AttributeError, when another thread is running     *)
(* that loop it raises RuntimeError: the thread dies there and line 1189   *)
(* is not reached.  Otherwise the loop is closed and the thread stands     *)
(* before line 1189.                                                       *)
(***************************************************************************)
ThreadEnds(i) ==
  /\ runs' = [runs EXCEPT ![i] = None]
  /\ IF server_loop = None
       THEN /\ tstate' = [tstate EXCEPT ![i] = "dead"]
            /\ UNCHANGED lclosed
       ELSE IF RunsElsewhere(i, server_loop)
         THEN /\ tstate' = [tstate EXCEPT ![i] = "dead"]
              /\ UNCHANGED lclosed
         ELSE /\ tstate' = [tstate EXCEPT ![i] = "closing"]
              /\ lclosed' = [lclosed EXCEPT ![server_loop] = TRUE]

(***************************************************************************)
(* asyncio.start_server calls handle_client for an accepted connection:    *)
(* a BPYMCPProtocol is made and handle_connection runs up to its first     *)
(* readexactly.  Connections are numbered in the order they are accepted.  *)
(***************************************************************************)
Accept(c) ==
  /\ pc[c] = "none"
  /\ \A b \in Conns : b < c => pc[b] # "none"
  /\ cur = None
  /\ \E i \in Threads :
       /\ LoopRuns(i)
       /\ owner' = [owner EXCEPT ![c] = i]
  /\ pc' = [pc EXCEPT ![c] = "read"]
  /\ authenticated' = [authenticated EXCEPT ![c] = FALSE]
  /\ connections' = connections \cup {c}
  /\ UNCHANGED <<server_thread, server_loop, current_token, tstate, runs, lclosed, stopReq,
                 nstarts, tokenAuth, ctl>>
  /\ UNCHANGED <<req, wt, spos, old_stdout, wclosed, backlog, wire, sent>>
  /\ UNCHANGED <<schedVars, outVars, loopVars, envVars>>

(***************************************************************************)
(* handle_connection, lines 77-85: the loop is left by an exception; the   *)
(* finally clause discards the connection and closes the writer.           *)
(***************************************************************************)
\* CloseConnection without the discard of line 83
CloseConnectionKeepsMember(c) ==
  /\ UNCHANGED connections
  /\ wclosed' = [wclosed EXCEPT ![c] = TRUE]
  /\ pc' = [pc EXCEPT ![c] = "closed"]
  /\ cur' = IF cur = c THEN None ELSE cur
  /\ UNCHANGED backlog

CloseConnection(c) ==
  /\ connections' = connections \ {c}
  /\ wclosed' = [wclosed EXCEPT ![c] = TRUE]
  /\ pc' = [pc EXCEPT ![c] = "closed"]
  /\ cur' = IF cur = c THEN None ELSE cur
  /\ UNCHANGED backlog

(***************************************************************************)
(* The bytes of a frame: response_data is the encoded JSON text, and       *)
(* response_length its len() as 4 big-endian bytes (lines 70-72,           *)
(* 1065-1067, 1086-1088).  Size stands for the byte length of the payload: *)
(* it grows with the members of the object and with the captured text.     *)
(***************************************************************************)
Size(resp) ==
  2 + Cardinality({f \in {"error", "output", "result", "stream_end",
                          "authenticated"} : resp[f] # "absent"})
    + (IF resp.chunk # None THEN 1 ELSE 0) + Len(resp.data)

\* Frame whose length prefix counts the prefix itself as well
FrameLengthCountsPrefix(resp) ==
  <<[part |-> "length", n |-> Size(resp) + 4],
    [part |-> "payload", n |-> Size(resp), id |-> resp.id]>>

Frame(resp) ==
  <<[part |-> "length", n |-> Size(resp)],
    [part |-> "payload", n |-> Size(resp), id |-> resp.id]>>

\* self.writer.write(response_length + response_data), lines 74, 1069, 1090:
\* one call hands the length prefix and the payload to the writer
WriterWrite(c, resp) ==
  /\ wire' = [wire EXCEPT ![c] = Append(@, resp)]
  /\ sent' = [sent EXCEPT ![c] = @ \o Frame(resp)]

\* process_message returned a response: handle_connection lines 70-75
Reply(c, resp) ==
  /\ WriterWrite(c, resp)
  /\ UNCHANGED <<pc, owner, req, wt, spos, old_stdout, wclosed, backlog>>
  /\ UNCHANGED <<schedVars, outVars, srvVars, loopVars, touched>>

(***************************************************************************)
(* _handle_list_objects lines 256-258 (and the other handlers alike),      *)
(* execute_code lines 892-895: submit the work, then await the future      *)
(* through run_in_executor, which suspends the coroutine.                  *)
(***************************************************************************)
SubmitAndAwait(c, id, m) ==
  /\ SubmitTask([conn |-> c, req |-> id,
                 kind |-> IF Directive(m) = "handler" THEN "handler" ELSE "code",
                 writes |-> IF Directive(m) = "handler" THEN <<>> ELSE m.writes,
                 outcome |-> m.outcome])
  /\ wt' = [wt EXCEPT ![c] = Len(task) + 1]
  /\ req' = [req EXCEPT ![c] = [id |-> id, dir |-> m.dir, writes |-> m.writes,
                                outcome |-> m.outcome]]
  /\ pc' = [pc EXCEPT ![c] = "await"]
  /\ cur' = IF cur = c THEN None ELSE cur
  /\ UNCHANGED <<spc, rpc, rcur, rpos, rfail, started, escaped, sys_stdout>>
  /\ UNCHANGED <<owner, spos, old_stdout, wclosed, backlog, wire, sent>>
  /\ UNCHANGED <<srvVars, chunkq, touched>>

(***************************************************************************)
(* execute_code_streaming lines 922-999: the coroutine itself binds        *)
(* sys.stdout to a StreamingCapture and calls exec(code) on the loop       *)
(* thread; it holds the thread until exec returns.                         *)
(***************************************************************************)
StreamBegin(c, id, m) ==
  /\ old_stdout' = [old_stdout EXCEPT ![c] = sys_stdout]
  /\ sys_stdout' = Cap(c)
  /\ req' = [req EXCEPT ![c] = [id |-> id, dir |-> m.dir, writes |-> m.writes,
                                outcome |-> m.outcome]]
  /\ spos' = [spos EXCEPT ![c] = 0]
  /\ pc' = [pc EXCEPT ![c] = "exec"]
  /\ cur' = c
  /\ touched' = touched \cup {[thread |-> "io", kind |-> "code"]}
  /\ UNCHANGED <<owner, wt, wclosed, backlog, wire, sent>>
  /\ UNCHANGED <<schedVars, buf, srvVars, chunkq>>

(***************************************************************************)
(* handle_connection lines 56-64: readexactly raises IncompleteReadError   *)
(* when the stream ends before the bytes asked for have arrived, and       *)
(* decode raises UnicodeDecodeError: both leave the while loop.            *)
(***************************************************************************)
\* FrameEnds where only a stream that ends at a frame boundary leaves the loop
FrameEndsOnlyAtBoundary(m) == m.form = "eof"

FrameEnds(m) == m.form \in {"eof", "trunc", "badutf8"}

(***************************************************************************)
(* handle_connection lines 54-75 with process_message: one frame is read   *)
(* and processed up to the coroutine's next suspension.  The k-th frame a  *)
(* client sends on a connection carries the id k; M is the set of frames   *)
(* the clients send and n their number.                                    *)
(***************************************************************************)
HandleMessage(c, M, n) ==
  /\ pc[c] = "read"
  /\ ~wclosed[c]
  /\ CanRun(c)
  /\ nmsgs < n
  /\ \E m \in M :
       LET id == nreq[c] + 1
           d == ProcessMessage(m, id, authenticated[c], current_token)
       IN
       /\ nmsgs' = nmsgs + 1
       /\ nreq' = [nreq EXCEPT ![c] = id]
       /\ goodTok' = [goodTok EXCEPT ![c] =
                        @ \/ (m.form = "obj" /\ m.token = current_token)]
       /\ rxform' = [rxform EXCEPT ![c] = m.form]
       /\ IF FrameEnds(m)
            THEN /\ CloseConnection(c)
                 /\ UNCHANGED <<owner, authenticated, req, wt, spos, old_stdout, wire, sent>>
                 /\ UNCHANGED <<server_thread, server_loop, current_token, tstate, runs, lclosed,
                                stopReq, nstarts, tokenAuth, ctl>>
                 /\ UNCHANGED <<schedVars, outVars, chunkq, touched>>
            ELSE /\ authenticated' = [authenticated EXCEPT ![c] = d.auth]
                 /\ \/ d.do = "reply" /\ Reply(c, d.resp)
                    \/ d.do = "submit" /\ SubmitAndAwait(c, id, m)
                    \/ d.do = "stream" /\ StreamBegin(c, id, m)

\* the transport was closed under the coroutine: readexactly raises
ReadClosed(c) ==
  /\ pc[c] = "read"
  /\ wclosed[c]
  /\ CanRun(c)
  /\ CloseConnection(c)
  /\ UNCHANGED <<owner, authenticated, req, wt, spos, old_stdout, wire, sent>>
  /\ UNCHANGED <<server_thread, server_loop, current_token, tstate, runs, lclosed,
                 stopReq, nstarts, tokenAuth, ctl>>
  /\ UNCHANGED <<schedVars, outVars, chunkq, envVars>>

\* readexactly finds no buffered frame: the coroutine yields the thread
Suspend(c) ==
  /\ pc[c] = "read"
  /\ cur = c
  /\ cur' = None
  /\ UNCHANGED <<schedVars, outVars, srvVars, connVars, chunkq, envVars>>

(***************************************************************************)
(* One print of the client code inside exec(code) of                       *)
(* execute_code_streaming.  StreamingCapture.write (lines 980-989) makes a *)
(* task for send_response(chunk) when the string is not blank; the task    *)
(* only runs after the coroutine has yielded.  If the host thread has      *)
(* rebound sys.stdout meanwhile, the write goes to that object instead.    *)
(***************************************************************************)
StreamWrite(c) ==
  /\ pc[c] = "exec"
  /\ LoopRuns(owner[c])
  /\ spos[c] < Len(req[c].writes)
  /\ spos' = [spos EXCEPT ![c] = @ + 1]
  /\ IF sys_stdout.k = "cap"
       THEN /\ chunkq' = IF req[c].writes[spos[c] + 1] = "text"
                           THEN Append(chunkq, [conn |-> sys_stdout.n,
                                                id |-> req[sys_stdout.n].id,
                                                i |-> spos[c] + 1])
                           ELSE chunkq
            /\ UNCHANGED buf
       ELSE /\ buf' = IF sys_stdout.k = "buf"
                        THEN [buf EXCEPT ![sys_stdout.n] =
                               Append(@, Written("conn", c, spos[c] + 1,
                                                 req[c].writes[spos[c] + 1]))]
                        ELSE buf
            /\ UNCHANGED chunkq
  /\ UNCHANGED <<pc, owner, authenticated, req, wt, old_stdout, wclosed, backlog, wire, sent>>
  /\ UNCHANGED <<schedVars, sys_stdout, srvVars, cur, envVars>>

(***************************************************************************)
(* execute_code_streaming lines 999-1021, exec(code) is over.              *)
(*  - it returned: send_response(final_response) writes the terminal       *)
(*    frame at once (writer.write comes before the first await), then the  *)
(*    finally clause restores sys.stdout;                                  *)
(*  - it raised an Exception: sys.stdout is restored and the error         *)
(*    terminal frame is written;                                           *)
(*  - it raised KeyboardInterrupt: sys.stdout is restored, no except       *)
(*    clause catches it, handle_connection's finally closes the            *)
(*    connection, and the exception leaves the event loop: the server      *)
(*    thread goes into run_server_in_thread's finally.                     *)
(* In the first two cases process_message returns "" and the coroutine     *)
(* goes on to the next readexactly without having yielded.                 *)
(***************************************************************************)
StreamEnd(c) ==
  /\ pc[c] = "exec"
  /\ LoopRuns(owner[c])
  /\ spos[c] = Len(req[c].writes)
  /\ sys_stdout' = old_stdout[c]
  /\ IF req[c].outcome = "base"
       THEN /\ connections' = connections \ {c}
            /\ wclosed' = [wclosed EXCEPT ![c] = TRUE]
            /\ pc' = [pc EXCEPT ![c] = "closed"]
            /\ UNCHANGED backlog
            /\ ThreadEnds(owner[c])
            /\ cur' = None
            /\ chunkq' = <<>>
            /\ UNCHANGED <<wire, sent>>
       ELSE /\ IF wclosed[c]
                 THEN UNCHANGED <<wire, sent>>
                 ELSE WriterWrite(c, IF req[c].outcome = "ok"
                                       THEN FinalResponse(req[c].id)
                                       ELSE ErrorResponse(req[c].id))
            /\ pc' = [pc EXCEPT ![c] = "read"]
            /\ UNCHANGED <<connections, wclosed, backlog, tstate, runs, lclosed, cur, chunkq>>
  /\ UNCHANGED <<owner, authenticated, req, wt, spos, old_stdout>>
  /\ UNCHANGED <<server_thread, server_loop, current_token, stopReq, nstarts,
                 tokenAuth, ctl>>
  /\ UNCHANGED <<schedVars, buf, envVars>>

(***************************************************************************)
(* writer.write (lines 74, 1069, 1090) hands the bytes to the transport,   *)
(* which keeps what the socket does not take while the client is not       *)
(* reading; drain() only waits once that is more than the high-water mark. *)
(* ClientStalls: part of what was written to c is still in the transport.  *)
(* ClientReads: the client takes it all.                                   *)
(***************************************************************************)
ClientStalls(c) ==
  /\ pc[c] \in {"read", "await"}
  /\ ~wclosed[c]
  /\ Len(wire[c]) > 0
  /\ c \notin backlog
  /\ backlog' = backlog \cup {c}
  /\ UNCHANGED <<pc, owner, authenticated, req, wt, spos, old_stdout, wclosed, wire, sent>>
  /\ UNCHANGED <<schedVars, outVars, srvVars, loopVars, envVars>>

ClientReads(c) ==
  /\ c \in backlog
  /\ backlog' = backlog \ {c}
  /\ UNCHANGED <<pc, owner, authenticated, req, wt, spos, old_stdout, wclosed, wire, sent>>
  /\ UNCHANGED <<schedVars, outVars, srvVars, loopVars, envVars>>

(***************************************************************************)
(* The loop runs the oldest chunk task: send_response(chunk_response),     *)
(* lines 1058-1070.  A transport that was closed with nothing left to send *)
(* drops the write, and the error of drain() is swallowed by               *)
(* send_response; a transport that was closed while it still held bytes    *)
(* goes on sending and takes the write.                                    *)
(***************************************************************************)
ChunkSend ==
  /\ chunkq # <<>>
  /\ cur = None
  /\ LoopRuns(owner[Head(chunkq).conn])
  /\ chunkq' = Tail(chunkq)
  /\ IF wclosed[Head(chunkq).conn] /\ Head(chunkq).conn \notin backlog
       THEN UNCHANGED <<wire, sent>>
       ELSE WriterWrite(Head(chunkq).conn,
                        ChunkResponse(Head(chunkq).id, Head(chunkq).i))
  /\ UNCHANGED <<pc, owner, authenticated, req, wt, spos, old_stdout, wclosed, backlog>>
  /\ UNCHANGED <<schedVars, outVars, srvVars, cur, envVars>>

(***************************************************************************)
(* The future of the awaited task is done: fut.result returns or raises    *)
(* in the executor thread and the coroutine goes on.                       *)
(*  - handler (process_message lines 133-148): a result gives the handler  *)
(*    response, an exception the "failed" response, and so does a result   *)
(*    that json.dumps (line 135) cannot serialize;                         *)
(*  - code (lines 161-168, 181-185): a result gives the code response, an  *)
(*    exception is caught by the outer except and reported with id null.   *)
(* handle_connection then writes the response, lines 70-75.                *)
(***************************************************************************)
\* AwaitedResponse where a failed handler is reported by the outer except
AwaitedResponseOuterExcept(t, id) ==
  IF fut[t] = "result" /\ task[t].outcome # "unser"
    THEN IF task[t].kind = "handler" THEN HandlerResponse(id)
                                     ELSE CodeResponse(id, val[t])
    ELSE InternalErrorResponse

AwaitedResponse(t, id) ==
  IF task[t].kind = "handler"
    THEN IF fut[t] = "result" /\ task[t].outcome # "unser"
           THEN HandlerResponse(id)
           ELSE HandlerFailedResponse(id)
    ELSE IF fut[t] = "result" THEN CodeResponse(id, val[t])
                              ELSE InternalErrorResponse

Resume(c) ==
  /\ pc[c] = "await"
  /\ fut[wt[c]] # "pending"
  /\ CanRun(c)
  /\ IF wclosed[c]
       THEN /\ CloseConnection(c)
            /\ UNCHANGED <<wire, sent>>
       ELSE /\ WriterWrite(c, AwaitedResponse(wt[c], req[c].id))
            /\ pc' = [pc EXCEPT ![c] = "read"]
            /\ UNCHANGED <<connections, wclosed, backlog, cur>>
  /\ wt' = [wt EXCEPT ![c] = None]
  /\ UNCHANGED <<owner, authenticated, req, spos, old_stdout>>
  /\ UNCHANGED <<server_thread, server_loop, current_token, tstate, runs, lclosed, stopReq,
                 nstarts, tokenAuth, ctl>>
  /\ UNCHANGED <<schedVars, outVars, chunkq, envVars>>

\* is_server_running, lines 1263-1265
is_server_running ==
  IF server_thread = None THEN FALSE ELSE tstate[server_thread] # "dead"

\* StartError without the check of lines 1196-1197
StartErrorNoAliveCheck ==
  IF \E i \in Threads : tstate[i] = "serving" THEN "bind" ELSE "none"

(***************************************************************************)
(* start_server, lines 1196-1222: the error that a call of start_server    *)
(* raises in the current state, "none" when it raises nothing.  The thread *)
(* in _server_thread is alive, or the test bind fails because a server     *)
(* thread is listening on the port.  bpy.app.online_access is taken to be  *)
(* enabled.                                                                *)
(***************************************************************************)
StartError ==
  IF is_server_running THEN "already_running"
  ELSE IF \E i \in Threads : tstate[i] = "serving" THEN "bind"
  ELSE "none"

(***************************************************************************)
(* start_server, lines 1192-1233.  A call that raises changes nothing;     *)
(* the others create and start the server thread.                          *)
(***************************************************************************)
StartServer ==
  /\ ctl = "idle"
  /\ nstarts < MaxStarts
  /\ StartError = "none"
  /\ nstarts' = nstarts + 1
  /\ server_thread' = nstarts + 1
  /\ tstate' = [tstate EXCEPT ![nstarts + 1] = "new"]
  /\ UNCHANGED <<server_loop, current_token, connections, runs, lclosed, stopReq,
                 tokenAuth, ctl>>
  /\ UNCHANGED <<schedVars, outVars, connVars, loopVars, envVars>>

\* run_server_in_thread, lines 1177-1178: the thread publishes its loop
ThreadPublish(i) ==
  /\ tstate[i] = "new"
  /\ tstate' = [tstate EXCEPT ![i] = "setup"]
  /\ server_loop' = i
  /\ UNCHANGED <<server_thread, current_token, connections, runs, lclosed, stopReq,
                 nstarts, tokenAuth, ctl>>
  /\ UNCHANGED <<schedVars, outVars, connVars, loopVars, envVars>>

(***************************************************************************)
(* run_server_in_thread line 1181 with start_server_async.  The thread     *)
(* calls run_until_complete on the loop that the global _server_loop names *)
(* at that moment.                                                         *)
(*  - The global is None (AttributeError), or the loop is closed or is     *)
(*    being run by another thread (RuntimeError): the coroutine never      *)
(*    runs, the except clause prints the error and the thread goes into    *)
(*    the finally clause.                                                  *)
(*  - Otherwise start_server_async runs: the token is set from             *)
(*    prefs.require_token (each start makes a new secret, here the number  *)
(*    of the thread), then the listening socket is opened, line 1164.  If  *)
(*    the loop was already told to stop, or the port is taken (by a server *)
(*    thread, or by another program since the test bind of line 1220:      *)
(*    port_free is false), the error is printed and the thread goes into   *)
(*    the finally clause.                                                  *)
(***************************************************************************)
ThreadServe(i) ==
  /\ tstate[i] = "setup"
  /\ IF server_loop = None
       THEN /\ ThreadEnds(i)
            /\ UNCHANGED <<current_token, tokenAuth>>
       ELSE IF lclosed[server_loop] \/ RunsElsewhere(i, server_loop)
         THEN /\ ThreadEnds(i)
              /\ UNCHANGED <<current_token, tokenAuth>>
         ELSE /\ \E require_token \in BOOLEAN :
                   /\ current_token' = IF require_token THEN i ELSE None
                   /\ tokenAuth' = [tokenAuth EXCEPT ![i] = require_token]
              /\ \E port_free \in BOOLEAN :
                   IF \/ stopReq[server_loop]
                      \/ \E j \in Threads : tstate[j] = "serving"
                      \/ ~port_free
                     THEN ThreadEnds(i)
                     ELSE /\ tstate' = [tstate EXCEPT ![i] = "serving"]
                          /\ runs' = [runs EXCEPT ![i] = server_loop]
                          /\ UNCHANGED lclosed
  /\ UNCHANGED <<server_thread, server_loop, connections, stopReq, nstarts, ctl>>
  /\ UNCHANGED <<schedVars, outVars, connVars, loopVars, envVars>>

\* run_server_in_thread line 1189: the global is cleared, the thread is over
ThreadExit(i) ==
  /\ tstate[i] = "closing"
  /\ tstate' = [tstate EXCEPT ![i] = "dead"]
  /\ server_loop' = None
  /\ UNCHANGED <<server_thread, current_token, connections, runs, lclosed, stopReq,
                 nstarts, tokenAuth, ctl>>
  /\ UNCHANGED <<schedVars, outVars, connVars, loopVars, envVars>>

(***************************************************************************)
(* The loop runs the stop() that stop_server scheduled: run_until_complete *)
(* raises and the thread goes into the finally clause.  The coroutines of  *)
(* the loop are never resumed.                                             *)
(***************************************************************************)
LoopStop(i) ==
  /\ tstate[i] = "serving"
  /\ stopReq[runs[i]]
  /\ cur = None
  /\ ThreadEnds(i)
  /\ chunkq' = <<>>
  /\ UNCHANGED <<server_thread, server_loop, current_token, connections, stopReq,
                 nstarts, tokenAuth, ctl>>
  /\ UNCHANGED <<schedVars, outVars, connVars, cur, envVars>>

(***************************************************************************)
(* stop_server line 1242: call_soon_threadsafe raises RuntimeError ("Event *)
(* loop is closed") when the published loop has been closed; a closed loop *)
(* object is still true at line 1240.  The exception leaves stop_server    *)
(* before anything is changed.                                             *)
(***************************************************************************)
StopRaises == server_loop # None /\ lclosed[server_loop]

\* stop_server, lines 1240-1242: ask the published loop to stop
StopBegin ==
  /\ ctl = "idle"
  /\ ~StopRaises
  /\ ctl' = "join"
  /\ stopReq' = IF server_loop # None THEN [stopReq EXCEPT ![server_loop] = TRUE]
                ELSE stopReq
  /\ UNCHANGED <<server_thread, server_loop, current_token, connections, tstate, runs, lclosed,
                 nstarts, tokenAuth>>
  /\ UNCHANGED <<schedVars, outVars, connVars, loopVars, envVars>>

(***************************************************************************)
(* stop_server, lines 1244-1260: join returns because the thread has ended *)
(* or because the 5 s timeout expired; the timeout can only expire when    *)
(* the thread's loop was not told to stop or is kept busy by a coroutine,  *)
(* not when the thread is already in its finally clause.                   *)
(* Then the globals are cleared, writer.close() is called for every        *)
(* member of _connections and the set is emptied.  close() only closes the *)
(* socket through a callback of the connection's event loop: when the loop *)
(* has stopped the callback never runs, and when the loop has been closed  *)
(* close() raises RuntimeError, which lines 1256-1257 swallow.  The socket *)
(* is closed only when the loop of the connection still runs.              *)
(***************************************************************************)
LoopOf(i) == IF runs[i] # None THEN runs[i] ELSE i

JoinReturns ==
  IF server_thread = None THEN TRUE
  ELSE \/ tstate[server_thread] = "dead"
       \/ /\ tstate[server_thread] # "closing"
          /\ ~stopReq[LoopOf(server_thread)] \/ cur # None

\* StopFinish of a stop_server that also empties the task queue
StopFinishClearsQueue ==
  /\ ctl = "join"
  /\ JoinReturns
  /\ ctl' = "idle"
  /\ server_thread' = None
  /\ current_token' = None
  /\ wclosed' = [c \in Conns |->
                  wclosed[c] \/ (c \in connections /\ LoopRuns(owner[c]))]
  /\ connections' = {}
  /\ TASKS' = <<>>
  /\ UNCHANGED <<timers, spc, task, fut, val, rpc, rcur, rpos, rfail, started,
                 escaped>>
  /\ UNCHANGED <<server_loop, tstate, runs, lclosed, stopReq, nstarts, tokenAuth>>
  /\ UNCHANGED <<pc, owner, authenticated, req, wt, spos, old_stdout, backlog,
                 wire, sent>>
  /\ UNCHANGED <<outVars, loopVars, envVars>>

StopFinish ==
  /\ ctl = "join"
  /\ JoinReturns
  /\ ctl' = "idle"
  /\ server_thread' = None
  /\ current_token' = None
  /\ wclosed' = [c \in Conns |->
                  wclosed[c] \/ (c \in connections /\ LoopRuns(owner[c]))]
  /\ UNCHANGED backlog
  /\ connections' = {}
  /\ UNCHANGED <<server_loop, tstate, runs, lclosed, stopReq, nstarts, tokenAuth>>
  /\ UNCHANGED <<pc, owner, authenticated, req, wt, spos, old_stdout, wire, sent>>
  /\ UNCHANGED <<schedVars, outVars, loopVars, envVars>>

Init ==
  /\ TASKS = <<>>
  /\ timers = 0
  /\ spc = [k \in Callers |-> "idle"]
  /\ task = <<>>
  /\ fut = <<>>
  /\ val = <<>>
  /\ rpc = "idle"
  /\ rcur = None
  /\ rpos = 0
  /\ rfail = FALSE
  /\ started = <<>>
  /\ escaped = {}
  /\ sys_stdout = Orig
  /\ buf = <<>>
  /\ server_thread = None
  /\ server_loop = None
  /\ current_token = None
  /\ connections = {}
  /\ tstate = [i \in Threads |-> "unborn"]
  /\ runs = [i \in Threads |-> None]
  /\ lclosed = [i \in Threads |-> FALSE]
  /\ stopReq = [i \in Threads |-> FALSE]
  /\ nstarts = 0
  /\ tokenAuth = [i \in Threads |-> FALSE]
  /\ ctl = "idle"
  /\ pc = [c \in Conns |-> "none"]
  /\ owner = [c \in Conns |-> None]
  /\ authenticated = [c \in Conns |-> FALSE]
  /\ req = [c \in Conns |-> NoReq]
  /\ wt = [c \in Conns |-> None]
  /\ spos = [c \in Conns |-> 0]
  /\ old_stdout = [c \in Conns |-> Orig]
  /\ wclosed = [c \in Conns |-> FALSE]
  /\ backlog = {}
  /\ sent = [c \in Conns |-> <<>>]
  /\ wire = [c \in Conns |-> <<>>]
  /\ cur = None
  /\ chunkq = <<>>
  /\ nmsgs = 0
  /\ nreq = [c \in Conns |-> 0]
  /\ goodTok = [c \in Conns |-> FALSE]
  /\ rxform = [c \in Conns |-> "none"]
  /\ touched = {}

\* the host thread
HostStep ==
  \/ TimerFire
  \/ RunnerPop
  \/ RunnerWrite
  \/ RunnerFinish
  \/ RunnerReturn

\* the server thread coming up
ThreadStep ==
  \/ StartServer
  \/ \E i \in Threads : ThreadPublish(i)
  \/ \E i \in Threads : ThreadServe(i)
  \/ \E i \in Threads : ThreadExit(i)

\* the event loop, apart from reading a frame
LoopStep ==
  \/ \E c \in Conns : Accept(c)
  \/ \E c \in Conns : Suspend(c)
  \/ \E c \in Conns : StreamWrite(c)
  \/ \E c \in Conns : StreamEnd(c)
  \/ ChunkSend
  \/ \E c \in Conns : Resume(c)

\* stop_server and its effect on the loop and on the coroutines
StopStep ==
  \/ StopBegin
  \/ StopFinish
  \/ \E i \in Threads : LoopStop(i)
  \/ \E c \in Conns : ReadClosed(c)

(***************************************************************************)
(* Spec: the protocol.  The server is started and serves connections; the  *)
(* control side does not call stop_server.                                 *)
(***************************************************************************)
Next ==
  \/ HostStep
  \/ ThreadStep
  \/ LoopStep
  \/ \E c \in Conns : HandleMessage(c, Msgs, MaxMsgs)

Spec == Init /\ [][Next]_vars

(***************************************************************************)
(* SpecLife: the same program with stop_server, for a smaller set of       *)
(* client frames.                                                          *)
(***************************************************************************)
NextLife ==
  \/ HostStep
  \/ ThreadStep
  \/ LoopStep
  \/ StopStep
  \/ \E c \in Conns : HandleMessage(c, LifeMsgs, MaxLifeMsgs)

SpecLife == Init /\ [][NextLife]_vars

(***************************************************************************)
(* SpecSched: the scheduler alone, used by callers that submit work and    *)
(* may cancel the future they got back.                                    *)
(***************************************************************************)
NextSched ==
  \/ Submit
  \/ Cancel
  \/ TimerFire
  \/ RunnerPop
  \/ RunnerFinish
  \/ RunnerReturn

SpecSched == Init /\ [][NextSched]_vars

(***************************************************************************)
(* SpecBacklog: the protocol with clients that are slow to read what the   *)
(* server wrote, for the smaller set of client frames.                     *)
(***************************************************************************)
BacklogMsgs ==
  LifeMsgs \cup {Msg("badutf8", FALSE, TokAbsent, "none", <<>>, "ok")}

NextBacklog ==
  \/ HostStep
  \/ ThreadStep
  \/ LoopStep
  \/ \E c \in Conns : HandleMessage(c, BacklogMsgs, MaxMsgs)
  \/ \E c \in Conns : ClientStalls(c)
  \/ \E c \in Conns : ClientReads(c)

SpecBacklog == Init /\ [][NextBacklog]_vars

(***************************************************************************)
(* SpecSubmit: the scheduler with several threads inside submit at once.   *)
(***************************************************************************)
NextSubmit ==
  \/ \E k \in Callers : SubmitPut(k)
  \/ \E k \in Callers : SubmitCheck(k)
  \/ \E k \in Callers : SubmitRegister(k)
  \/ TimerFire
  \/ RunnerPop
  \/ RunnerFinish
  \/ RunnerReturn

SpecSubmit == Init /\ [][NextSubmit]_vars

(***************************************************************************)
(* Properties of the scheduler and of the thread that executes work.       *)
(***************************************************************************)

\* C1: every handler body and every execution of client-supplied code, in
\* the streaming mode as in the non-streaming one, is run by the drain
\* routine on the host thread, and by no other thread.
C1_WorkOnlyOnHostThread == \A e \in touched : e.thread = "host"

\* C2: work is executed in submission order, and when the work of a task
\* starts, the future of every task submitted before it is already resolved.
C2_SubmissionOrder ==
  /\ \A i, j \in 1..Len(started) : i < j => started[i] < started[j]
  /\ rpc = "run" => \A a \in 1..(rcur - 1) : fut[a] # "pending"

\* C3: the work of a task is invoked at most once, and a future that has
\* been completed (with a value, with an error, or by cancellation) keeps
\* that outcome in every later step, whatever the scheduler and the holder
\* of the future do; a value is stored only in the step that completes the
\* future with a result.
C3_CompletedOnce ==
  [][/\ \A i, j \in 1..Len(started') : i # j => started'[i] # started'[j]
     /\ \A t \in 1..Len(fut) : fut[t] # "pending" => fut'[t] = fut[t]
     /\ \A t \in 1..Len(val) :
          val'[t] # val[t] => fut[t] = "pending" /\ fut'[t] = "result"
    ]_vars

\* the scheduler tried to complete a future that its holder had cancelled
\* while the work was running, and another task completed with a result
C3_Witness ==
  \E t, u \in 1..Len(fut) :
    /\ fut[t] = "cancelled" /\ t \in escaped
    /\ fut[u] \in {"result", "exception"}
    /\ \E k \in 1..Len(started) : started[k] = u

\* C4: a failure raised by the work of a task never propagates out of the
\* drain routine: whatever the work raises and however other threads act
\* on the future, the drain goes on and its callback stays scheduled.
C4_FailureStaysInDrain ==
  /\ escaped = {}
  /\ Len(task) > 0 => registered

\* C5: in the streaming mode the output frames of a request come before its
\* terminal frame: a request has at most one frame with stream_end true and
\* no chunk frame of the request is written after it.
C5_ChunksBeforeTerminal ==
  \A c \in Conns : \A i, j \in 1..Len(wire[c]) :
    (i < j /\ wire[c][i].id # None /\ wire[c][i].id = wire[c][j].id
           /\ wire[c][i].stream_end = "true")
      => wire[c][j].chunk = None /\ wire[c][j].stream_end # "true"

(***************************************************************************)
(* Properties of the authentication handshake and of the wire.             *)
(***************************************************************************)

\* C6: on a connection of a server that was started with token-auth
\* enabled, no handler is dispatched, no code is executed and no task is
\* submitted before the connection has received a token equal to the
\* server's current token.
C6_NothingBeforeValidToken ==
  \A c \in Conns :
    (/\ pc[c] # "none"
     /\ tokenAuth[owner[c]]
     /\ \/ \E t \in 1..Len(task) : task[t].conn = c
        \/ pc[c] = "exec"
        \/ \E k \in 1..Len(wire[c]) : wire[c][k].stream_end # "absent")
      => goodTok[c]

\* C7: with token-auth disabled, an unauthenticated connection that reads
\* its next frame accepts a message that has an id and a code or handler
\* directive but no token: the message authenticates the connection and its
\* directive is executed.
C7_NoTokenNeededWhenDisabled ==
  \A c \in Conns :
    (/\ pc[c] = "read" /\ ~wclosed[c] /\ CanRun(c) /\ nmsgs < MaxMsgs
     /\ ~authenticated[c] /\ ~tokenAuth[owner[c]] /\ current_token = None)
      => \A dd \in Directives :
           dd[1] \in {"handler", "code", "stream"}
             => LET m == Msg("obj", TRUE, TokAbsent, dd[1], dd[2], dd[3])
                    d == ProcessMessage(m, nreq[c] + 1, authenticated[c],
                                        current_token)
                IN d.auth /\ d.do \in {"submit", "stream"}

\* C8: on an unauthenticated connection of a server that has a token, a
\* message with an id whose token is missing or differs from the server's
\* token gets exactly one response, with the request id, an error and
\* authenticated false; the step that writes such a response leaves the
\* connection open and unauthenticated and submits and executes nothing;
\* a message that carries the server's token authenticates the connection.
C8_AuthRejected ==
  /\ [](\A c \in Conns :
          (/\ pc[c] = "read" /\ ~wclosed[c] /\ CanRun(c) /\ nmsgs < MaxMsgs
           /\ ~authenticated[c] /\ current_token # None)
            => \A t \in MsgTokens, dd \in Directives :
                 \A d \in {ProcessMessage(
                              Msg("obj", TRUE, t, dd[1], dd[2], dd[3]),
                              nreq[c] + 1, authenticated[c], current_token)} :
                   IF t = current_token
                     THEN d.auth
                     ELSE /\ d.do = "reply" /\ ~d.auth
                          /\ d.resp.id = nreq[c] + 1
                          /\ d.resp.error \in {"auth_missing", "auth_failed"}
                          /\ d.resp.authenticated = "false")
  /\ [][\A c \in Conns :
          (/\ Len(wire'[c]) > Len(wire[c])
           /\ wire'[c][Len(wire'[c])].error \in {"auth_missing", "auth_failed"})
            => /\ wire' = [wire EXCEPT ![c] = Append(@, wire'[c][Len(wire'[c])])]
               /\ pc'[c] = "read" /\ ~wclosed'[c] /\ c \in connections'
               /\ ~authenticated'[c]
               /\ task' = task /\ TASKS' = TASKS /\ touched' = touched
       ]_vars

\* a connection was refused for its token and then authenticated by a
\* later message that carried the server's token
C8_Witness ==
  \E c \in Conns :
    /\ Len(wire[c]) = 2
    /\ wire[c][1].error \in {"auth_missing", "auth_failed"}
    /\ wire[c][1].authenticated = "false"
    /\ wire[c][2].id = 2 /\ wire[c][2].error \notin {"auth_missing", "auth_failed"}
    /\ authenticated[c] /\ goodTok[c] /\ tokenAuth[owner[c]]

\* C9: the authenticated flag of a connection starts false and, once true,
\* stays true as long as the connection lives; on an authenticated
\* connection a message is processed without any token check: whatever
\* token it carries, or none, it is never answered with an authentication
\* error and is treated exactly as the same message with any other token.
C9_AuthenticatedMonotonic ==
  /\ [](\A c \in Conns : pc[c] = "none" => ~authenticated[c])
  /\ [](\A c \in Conns :
          (/\ pc[c] = "read" /\ ~wclosed[c] /\ CanRun(c) /\ nmsgs < MaxMsgs
           /\ authenticated[c])
            => \A dd \in Directives :
                 \A d \in {ProcessMessage(
                              Msg("obj", TRUE, TokAbsent, dd[1], dd[2], dd[3]),
                              nreq[c] + 1, authenticated[c], current_token)} :
                   /\ d.auth
                   /\ d.resp.error \notin {"auth_missing", "auth_failed"}
                   /\ \A t \in MsgTokens :
                        ProcessMessage(
                          Msg("obj", TRUE, t, dd[1], dd[2], dd[3]),
                          nreq[c] + 1, authenticated[c], current_token) = d)
  /\ [][\A c \in Conns :
          /\ (pc[c] = "none" /\ pc'[c] # "none") => ~authenticated'[c]
          /\ authenticated[c] => authenticated'[c]
       ]_vars

\* an authenticated connection of a server with a token has processed a
\* later message
C9_Witness ==
  \E c \in Conns :
    /\ authenticated[c] /\ tokenAuth[owner[c]] /\ current_token # None
    /\ wire[c] = <<AuthOkResponse(1), MissingDirectiveResponse(2)>>

\* C10: on one connection every frame written for a request comes before
\* every frame written for a request received later.
C10_RequestFramesInOrder ==
  \A c \in Conns : \A i, j \in 1..Len(wire[c]) :
    (i < j /\ wire[c][i].id # None /\ wire[c][j].id # None)
      => wire[c][i].id <= wire[c][j].id

\* C11: a connection never has more than one request in flight: no frame is
\* read from it while frames of an earlier request still wait to be
\* written, and at most one task submitted for it is pending in the queue.
C11_OneRequestInFlight ==
  \A c \in Conns :
    /\ Cardinality({t \in 1..Len(task) :
                      task[t].conn = c /\ fut[t] = "pending"}) <= 1
    /\ \A k \in 1..Len(chunkq) :
         (chunkq[k].conn = c /\ rxform[c] \in {"obj", "badjson"})
           => nreq[c] <= chunkq[k].id

\* C12 as stated: a request with an id and neither code nor handler yields
\* the "Missing required field" error whatever the authentication state of
\* the connection.
C12_MissingDirectiveInEveryAuthState ==
  \A c \in Conns :
    (pc[c] = "read" /\ ~wclosed[c] /\ CanRun(c) /\ nmsgs < MaxMsgs)
      => \A t \in MsgTokens :
           ProcessMessage(Msg("obj", TRUE, t, "none", <<>>, "ok"), nreq[c] + 1,
                          authenticated[c], current_token).resp.error
             = "missing_directive"

\* C12: a request with an id and neither code nor handler, received on an
\* authenticated connection, yields the "Missing required field" error with
\* the request's id; in every authentication state it is answered at once
\* and no task is submitted for it.
C12_MissingDirective ==
  /\ [](\A c \in Conns :
          (pc[c] = "read" /\ ~wclosed[c] /\ CanRun(c) /\ nmsgs < MaxMsgs)
            => \A t \in MsgTokens :
                 \A d \in {ProcessMessage(
                              Msg("obj", TRUE, t, "none", <<>>, "ok"),
                              nreq[c] + 1, authenticated[c], current_token)} :
                   /\ d.do = "reply"
                   /\ authenticated[c]
                        => /\ d.resp.error = "missing_directive"
                           /\ d.resp.id = nreq[c] + 1
                           /\ d.auth)
  /\ [][\A c \in Conns :
          (/\ Len(wire'[c]) > Len(wire[c])
           /\ \/ wire'[c][Len(wire'[c])].error = "missing_directive"
              \/ wire'[c][Len(wire'[c])].authenticated = "true")
            => /\ wire' = [wire EXCEPT ![c] = Append(@, wire'[c][Len(wire'[c])])]
               /\ task' = task /\ TASKS' = TASKS /\ touched' = touched
               /\ pc'[c] = "read" /\ ~wclosed'[c]
       ]_vars

\* an authenticated connection was told that its second request lacks a
\* directive, and no task was ever submitted
C12_Witness ==
  \E c \in Conns :
    /\ Len(wire[c]) = 2
    /\ wire[c][2].error = "missing_directive" /\ wire[c][2].id = 2
    /\ authenticated[c] /\ pc[c] = "read" /\ ~wclosed[c]
    /\ Len(task) = 0

\* the frame is the response of a handler request
IsHandlerFrame(x) == x.result # "absent" \/ x.error = "handler_failed"

\* C13: a request with an id that names a known handler, on an
\* authenticated connection, is answered by exactly one frame and that
\* frame carries the request's id, whether the handler returns a result,
\* raises, or returns a result that cannot be serialized: the request is
\* submitted as one task, nothing is written for it while it is awaited,
\* the step that ends the wait appends one frame with the request's id and
\* leaves the connection open, and no other frame ever carries that id.
C13_HandlerResponseEchoesId ==
  /\ [](\A c \in Conns :
          (/\ pc[c] = "read" /\ ~wclosed[c] /\ CanRun(c) /\ nmsgs < MaxMsgs
           /\ authenticated[c])
            => \A t \in MsgTokens : \A o \in {"ok", "exc", "unser"} :
                 ProcessMessage(Msg("obj", TRUE, t, "handler", <<>>, o),
                                nreq[c] + 1, authenticated[c], current_token).do
                   = "submit")
  /\ [](\A c \in Conns :
          /\ (pc[c] = "await" /\ req[c].dir = "handler")
               => \A i \in 1..Len(wire[c]) : wire[c][i].id # req[c].id
          /\ \A i, j \in 1..Len(wire[c]) :
               (IsHandlerFrame(wire[c][i]) /\ i # j)
                 => /\ wire[c][i].id # None
                    /\ wire[c][j].id # wire[c][i].id)
  /\ [][\A c \in Conns :
          (pc[c] = "await" /\ req[c].dir = "handler" /\ pc'[c] # "await")
            => /\ Len(wire'[c]) = Len(wire[c]) + 1
               /\ wire' = [wire EXCEPT ![c] = Append(@, wire'[c][Len(wire'[c])])]
               /\ wire'[c][Len(wire'[c])].id = req[c].id
               /\ IsHandlerFrame(wire'[c][Len(wire'[c])])
               /\ wire'[c][Len(wire'[c])].error = "null"
                    <=> (fut[wt[c]] = "result" /\ req[c].outcome = "ok")
               /\ pc'[c] = "read" /\ ~wclosed'[c] /\ c \in connections'
       ]_vars

\* a handler returned a result that cannot be serialized and the failure
\* was reported under the id of the request
C13_Witness ==
  \E c \in Conns : \E t \in 1..Len(task) :
    /\ task[t].conn = c /\ task[t].kind = "handler"
    /\ task[t].outcome = "unser" /\ fut[t] = "result"
    /\ \E i \in 1..Len(wire[c]) :
         wire[c][i].id = task[t].req /\ wire[c][i].error = "handler_failed"

\* C14: when the client code of a non-streaming code request raises, the
\* response of the request carries the request's id, the failure in its
\* error field and output null, and the connection stays open.
C14_CodeFailureEchoesId ==
  [][\A c \in Conns :
       (/\ pc[c] = "await" /\ req[c].dir = "code"
        /\ fut[wt[c]] = "exception" /\ pc'[c] # "await")
         => /\ Len(wire'[c]) = Len(wire[c]) + 1
            /\ wire'[c][Len(wire'[c])].id = req[c].id
            /\ wire'[c][Len(wire'[c])].error \notin {"null", "absent"}
            /\ wire'[c][Len(wire'[c])].output = "null"
            /\ pc'[c] = "read" /\ ~wclosed'[c] /\ c \in connections'
    ]_vars

\* C15: a frame that was received whole and whose payload is not valid
\* JSON (text that does not parse, or bytes that are not UTF-8 text at all)
\* is answered by exactly one response with an error and id null; the
\* connection stays open in the same authentication state and no task is
\* submitted.
C15_InvalidJsonAnswered ==
  [][\A c \in Conns :
       (nreq'[c] # nreq[c] /\ rxform'[c] \in {"badjson", "badutf8"})
         => /\ Len(wire'[c]) = Len(wire[c]) + 1
            /\ wire' = [wire EXCEPT ![c] = Append(@, wire'[c][Len(wire'[c])])]
            /\ wire'[c][Len(wire'[c])].error = "invalid_json"
            /\ wire'[c][Len(wire'[c])].id = None
            /\ pc'[c] = "read" /\ ~wclosed'[c] /\ c \in connections'
            /\ authenticated'[c] = authenticated[c]
            /\ task' = task /\ TASKS' = TASKS /\ touched' = touched
    ]_vars

\* C16: when the peer's stream ends inside the length prefix or before the
\* declared number of payload bytes has arrived, the connection goes to
\* CLOSED: it is removed from the open set and its writer closed, no frame
\* is written for the truncated message, then or later, and no task is
\* submitted.
C16_TruncatedFrameCloses ==
  [][\A c \in Conns :
       /\ (nreq'[c] # nreq[c] /\ rxform'[c] = "trunc")
            => /\ pc'[c] = "closed" /\ wclosed'[c] /\ c \notin connections'
               /\ wire' = wire
               /\ task' = task /\ TASKS' = TASKS /\ touched' = touched
       /\ (pc[c] = "closed" /\ rxform[c] = "trunc")
            => /\ pc'[c] = "closed" /\ wire'[c] = wire[c]
               /\ \A t \in 1..Len(task') : t > Len(task) => task'[t].conn # c
    ]_vars

\* a connection that had been answered once was closed by a truncated
\* second frame
C16_Witness ==
  \E c \in Conns :
    /\ rxform[c] = "trunc" /\ nreq[c] = 2
    /\ pc[c] = "closed" /\ wclosed[c] /\ c \notin connections
    /\ Len(wire[c]) = 1 /\ wire[c][1].id = 1

\* the handler loop of the connection has started and has not been left
HandlerRuns(c) == pc[c] \in {"read", "await", "exec"}

C18_StartWhileRunningFails ==
  /\ [](is_server_running => StartError = "already_running")
  /\ [][is_server_running
          => /\ nstarts' = nstarts
             /\ \A i \in Threads : tstate[i] = "unborn" => tstate'[i] = "unborn"
             /\ server_thread' \in {server_thread, None}
       ]_vars

\* a running server with a token and an open connection, at a moment when
\* start_server can be called
C18_Witness ==
  /\ is_server_running /\ tstate[server_thread] = "serving"
  /\ current_token # None /\ connections # {}
  /\ ctl = "idle" /\ nstarts < MaxStarts

\* C19: a call of start_server that cannot bring the server up raises from
\* the call itself and spawns no thread, and a call that returns without
\* error results in a listening server: a thread is only created by a call
\* that raises nothing, and the thread of such a call, as long as
\* stop_server has not been called since, goes on to listen.
C19_StartedServerListens ==
  [][/\ nstarts' # nstarts => StartError = "none"
     /\ \A i \in Threads :
          (/\ server_thread = i /\ ctl = "idle"
           /\ tstate[i] \in {"new", "setup"} /\ tstate'[i] # tstate[i])
            => tstate'[i] \in {"setup", "serving"}
    ]_vars

\* C20: stop_server is idempotent: called when the server is not running,
\* the first time or again after an earlier call, it raises no error, and
\* every call that returns leaves the server not running, without a token
\* and with an empty open-connection set.
C20_StopIdempotent ==
  /\ []((~is_server_running /\ ctl = "idle") => ~StopRaises)
  /\ [][(ctl = "join" /\ ctl' = "idle")
          => /\ ~is_server_running'
             /\ current_token' = None
             /\ connections' = {}
       ]_vars

\* C21: when stop_server returns, every connection that was in the open
\* set has been closed, whatever its protocol state, and the set is empty.
C21_StopClosesConnections ==
  [][(ctl = "join" /\ ctl' = "idle")
       => /\ connections' = {}
          /\ \A c \in connections : wclosed'[c]
    ]_vars

\* C22: the token lives as long as a server run: before the first
\* start_server and from the return of a stop_server to the next
\* start_server there is no token, however the control thread and the
\* server thread interleave.
C22_TokenLivesWithRun ==
  (server_thread = None /\ ctl = "idle") => current_token = None

\* C23: an error on one connection never changes the state of another
\* connection: in every step in which the handler of c ends or writes an
\* error response, every other connection keeps its place in the handler
\* loop, its authentication flag, its open writer and its membership of
\* the open set, and the event loop that has to answer its pending request
\* goes on running.
C23_ErrorsStayOnTheirConnection ==
  [][\A c \in Conns :
       (/\ HandlerRuns(c)
        /\ \/ pc'[c] = "closed"
           \/ /\ Len(wire'[c]) > Len(wire[c])
              /\ wire'[c][Len(wire'[c])].error \notin {"null", "absent"})
         => \A b \in Conns \ {c} :
              /\ pc'[b] = pc[b]
              /\ authenticated'[b] = authenticated[b]
              /\ wclosed'[b] = wclosed[b]
              /\ (b \in connections') = (b \in connections)
              /\ wire'[b] = wire[b]
              /\ (HandlerRuns(b) /\ LoopRuns(owner[b])) => LoopRuns(owner[b])'
    ]_vars

\* C24: as long as the host fires its ticks every submitted task that is
\* not cancelled is executed and its future completed, and the drain
\* callback, once registered, stays registered without a later submit:
\* a registered callback is never dropped, queued tasks always have a
\* registered callback, and a task whose work has run and ended has a
\* completed future.
C24_DrainSelfSustaining ==
  /\ [](TASKS # <<>> => registered)
  /\ [](\A k \in 1..Len(started) :
          started[k] # rcur => fut[started[k]] # "pending")
  /\ [][registered => registered']_vars

\* C25: submit may be called by several threads at once without a lock of
\* the caller: every submitted task is in the queue exactly once (until the
\* drain takes it), and at most one drain callback is registered with the
\* host scheduler at any time.
C25_ConcurrentSubmit ==
  /\ timers <= 1
  /\ \A t \in 1..Len(task) :
       Cardinality({i \in 1..Len(TASKS) : TASKS[i] = t})
         + Cardinality({i \in 1..Len(started) : started[i] = t}) = 1

\* C26: a queued task whose future was cancelled before the drain reaches it
\* is dequeued and skipped (its work is not invoked, its future stays
\* cancelled, the drain goes on with the next task); a cancellation that
\* arrives while the work is in flight does not stop the work and does not
\* break the drain (the drain goes on and its callback stays registered).
C26_CancelledTaskSkipped ==
  [][/\ (rpc = "loop" /\ TASKS # <<>> /\ TASKS' = Tail(TASKS)
          /\ fut[Head(TASKS)] = "cancelled")
         => /\ started' = started
            /\ fut'[Head(TASKS)] = "cancelled"
            /\ rpc' = "loop"
     /\ (rpc = "run" /\ fut[rcur] = "cancelled" /\ task[rcur].outcome # "base")
         => /\ rpc' \in {"run", "loop"}
            /\ registered'
    ]_vars

\* C27: on an unauthenticated connection a message with an id and an
\* acceptable token but neither code nor handler is answered with only the
\* authentication acknowledgement {id, authenticated: true}: the connection
\* becomes authenticated, nothing is executed and no task is submitted.
C27_AuthOnlyAcknowledged ==
  /\ [](\A c \in Conns :
          (/\ pc[c] = "read" /\ ~wclosed[c] /\ CanRun(c) /\ nmsgs < MaxMsgs
           /\ ~authenticated[c])
            => \A t \in MsgTokens :
                 (t # TokAbsent /\ (current_token = None \/ t = current_token))
                   => \A d \in {ProcessMessage(
                                  Msg("obj", TRUE, t, "none", <<>>, "ok"),
                                  nreq[c] + 1, authenticated[c], current_token)} :
                        /\ d.do = "reply"
                        /\ d.auth
                        /\ d.resp.id = nreq[c] + 1
                        /\ d.resp.authenticated = "true"
                        /\ d.resp.error = "absent"
                        /\ d.resp.output = "absent"
                        /\ d.resp.result = "absent"
                        /\ d.resp.stream_end = "absent"
                        /\ d.resp.chunk = None)
  /\ [][\A c \in Conns :
          (/\ ~authenticated[c]
           /\ Len(wire'[c]) > Len(wire[c])
           /\ wire'[c][Len(wire'[c])].authenticated = "true")
            => /\ authenticated'[c]
               /\ wire' = [wire EXCEPT ![c] = Append(@, wire'[c][Len(wire'[c])])]
               /\ wire'[c][Len(wire'[c])].id = nreq'[c]
               /\ wire'[c][Len(wire'[c])].error = "absent"
               /\ schedVars' = schedVars
               /\ outVars' = outVars
               /\ touched' = touched
               /\ chunkq' = chunkq
               /\ pc'[c] = "read" /\ ~wclosed'[c] /\ c \in connections'
       ]_vars

\* a connection authenticated itself with a bare token message: the
\* acknowledgement is its first frame and no work was ever queued
C27_Witness ==
  \E c \in Conns :
    /\ authenticated[c]
    /\ Len(wire[c]) = 1
    /\ wire[c][1].authenticated = "true" /\ wire[c][1].id = 1
    /\ wire[c][1].error = "absent"
    /\ current_token # None
    /\ Len(task) = 0 /\ touched = {}

\* C28: a request that carries both a handler and a code field takes the
\* handler branch, with stream true as without: it is submitted as one
\* handler task, its code is not executed (no task of the code, no capture
\* of sys.stdout, no chunk frame), and it gets a single handler response.
C28_HandlerBeforeCode ==
  /\ [](\A c \in Conns :
          (pc[c] = "read" /\ ~wclosed[c] /\ CanRun(c) /\ nmsgs < MaxMsgs)
            => \A t \in MsgTokens : \A b \in {"both", "bothstream"} :
                 (\/ authenticated[c]
                  \/ t # TokAbsent /\ (current_token = None \/ t = current_token))
                   => ProcessMessage(Msg("obj", TRUE, t, b, <<"text">>, "ok"),
                                     nreq[c] + 1, authenticated[c],
                                     current_token).do = "submit")
  /\ [](\A c \in Conns :
          req[c].dir \in {"both", "bothstream"}
            => /\ \A t \in 1..Len(task) :
                    (task[t].conn = c /\ task[t].req = req[c].id)
                      => task[t].kind = "handler" /\ task[t].writes = <<>>
               /\ Cardinality({t \in 1..Len(task) :
                                 task[t].conn = c /\ task[t].req = req[c].id}) = 1
               /\ \A k \in 1..Len(chunkq) :
                    ~(chunkq[k].conn = c /\ chunkq[k].id = req[c].id)
               /\ \A i \in 1..Len(wire[c]) :
                    wire[c][i].id = req[c].id
                      => /\ IsHandlerFrame(wire[c][i])
                         /\ wire[c][i].chunk = None
                         /\ wire[c][i].stream_end = "true"
                         /\ pc[c] # "await"
               /\ Cardinality({i \in 1..Len(wire[c]) :
                                 wire[c][i].id = req[c].id}) <= 1
               /\ pc[c] \in {"await", "read", "closed"})
  /\ [][\A c \in Conns :
          (/\ pc[c] = "await" /\ req[c].dir \in {"both", "bothstream"}
           /\ pc'[c] = "read")
            => /\ wire' = [wire EXCEPT ![c] = Append(@, wire'[c][Len(wire'[c])])]
               /\ wire'[c][Len(wire'[c])].id = req[c].id
       ]_vars

\* a request with handler, code and stream true was answered by one handler
\* response and the connection reads on
C28_Witness ==
  \E c \in Conns :
    /\ req[c].dir = "bothstream" /\ pc[c] = "read"
    /\ \E i \in 1..Len(wire[c]) :
         /\ wire[c][i].id = req[c].id
         /\ wire[c][i].result = "value" /\ wire[c][i].error = "null"

\* C29: a request that names a handler outside the registry is answered
\* in-band with an error response that echoes the request id and has
\* stream_end true; no task is submitted, and the connection stays open and
\* authenticated for further requests.
C29_UnknownHandlerAnswered ==
  /\ [](\A c \in Conns :
          (pc[c] = "read" /\ ~wclosed[c] /\ CanRun(c) /\ nmsgs < MaxMsgs)
            => \A t \in MsgTokens :
                 (\/ authenticated[c]
                  \/ t # TokAbsent /\ (current_token = None \/ t = current_token))
                   => \A d \in {ProcessMessage(
                                  Msg("obj", TRUE, t, "unknown", <<>>, "ok"),
                                  nreq[c] + 1, authenticated[c], current_token)} :
                        /\ d.do = "reply"
                        /\ d.auth
                        /\ d.resp.id = nreq[c] + 1
                        /\ d.resp.error \notin {"null", "absent"}
                        /\ d.resp.stream_end = "true"
                        /\ d.resp.chunk = None)
  /\ [][\A c \in Conns :
          (/\ pc[c] = "read"
           /\ Len(wire'[c]) > Len(wire[c])
           /\ wire'[c][Len(wire'[c])].error = "handler_failed")
            => /\ wire' = [wire EXCEPT ![c] = Append(@, wire'[c][Len(wire'[c])])]
               /\ wire'[c][Len(wire'[c])].id = nreq'[c]
               /\ wire'[c][Len(wire'[c])].stream_end = "true"
               /\ schedVars' = schedVars
               /\ touched' = touched
               /\ authenticated'[c]
               /\ pc'[c] = "read" /\ ~wclosed'[c] /\ c \in connections'
       ]_vars

\* an unknown handler was refused, no task exists, and the connection went
\* on to have a second request answered
C29_Witness ==
  \E c \in Conns :
    /\ Len(wire[c]) = 2
    /\ wire[c][1].error = "handler_failed" /\ wire[c][1].id = 1
    /\ wire[c][2].error = "handler_failed" /\ wire[c][2].id = 2
    /\ Len(task) = 0
    /\ authenticated[c] /\ pc[c] = "read" /\ c \in connections

\* C30: an exception raised in a handler body on the host thread is
\* delivered through the task's future to the awaiting connection handler
\* and reported as a '<handler> failed' error response with the request's
\* id; it does not close the connection, does not reset its authenticated
\* flag, and does not stop the drain loop.
C30_HandlerExceptionReported ==
  /\ [][(/\ rpc = "run" /\ task[rcur].kind = "handler"
          /\ task[rcur].outcome = "exc" /\ rpc' # "run")
           => /\ fut'[rcur] = "exception"
              /\ rpc' = "loop"
              /\ registered'
              /\ escaped' = escaped
              /\ TASKS' = TASKS
              /\ connVars' = connVars
     ]_vars
  /\ [][\A c \in Conns :
          (/\ pc[c] = "await" /\ task[wt[c]].kind = "handler"
           /\ fut[wt[c]] = "exception" /\ pc'[c] # "await")
            => /\ wire' = [wire EXCEPT ![c] = Append(@, wire'[c][Len(wire'[c])])]
               /\ wire'[c][Len(wire'[c])].id = req[c].id
               /\ wire'[c][Len(wire'[c])].error = "handler_failed"
               /\ authenticated[c] /\ authenticated'[c]
               /\ pc'[c] = "read" /\ ~wclosed'[c] /\ c \in connections'
               /\ schedVars' = schedVars
       ]_vars
  /\ [](\A t \in 1..Len(task) :
          (/\ task[t].kind = "handler" /\ task[t].outcome = "exc"
           /\ t # rcur /\ \E k \in 1..Len(started) : started[k] = t)
            => fut[t] = "exception")

\* a handler raised, the failure was reported under the request's id, and
\* the same connection then had a later handler request drained and answered
C30_Witness ==
  \E c \in Conns : \E t, u \in 1..Len(task) :
    /\ t < u
    /\ task[t].conn = c /\ task[t].kind = "handler" /\ task[t].outcome = "exc"
    /\ fut[t] = "exception"
    /\ task[u].conn = c /\ task[u].kind = "handler" /\ fut[u] = "result"
    /\ Len(wire[c]) = 2
    /\ wire[c][1].id = task[t].req /\ wire[c][1].error = "handler_failed"
    /\ wire[c][2].id = task[u].req /\ wire[c][2].error = "null"
    /\ authenticated[c] /\ pc[c] = "read" /\ ~wclosed[c]
    /\ registered

\* C31: a parsed message without an id is answered with an error response
\* whose id is null; the id check comes before the authentication check, so
\* the message never changes the authenticated flag, also when it carries a
\* valid token, never submits a task, and the connection stays open.
C31_MissingIdAnswered ==
  /\ [](\A c \in Conns :
          (pc[c] = "read" /\ ~wclosed[c] /\ CanRun(c) /\ nmsgs < MaxMsgs)
            => \A t \in MsgTokens :
                 \A b \in {"none", "unknown", "handler", "code", "stream",
                            "both", "bothstream"} :
                   \A d \in {ProcessMessage(
                                Msg("obj", FALSE, t, b, <<>>, "ok"),
                                nreq[c] + 1, authenticated[c], current_token)} :
                     /\ d.do = "reply"
                     /\ d.auth = authenticated[c]
                     /\ d.resp.id = None
                     /\ d.resp.error \notin {"null", "absent"}
                     /\ d.resp.authenticated = "absent")
  /\ [][\A c \in Conns :
          (/\ Len(wire'[c]) > Len(wire[c])
           /\ wire'[c][Len(wire'[c])].error = "missing_id")
            => /\ wire' = [wire EXCEPT ![c] = Append(@, wire'[c][Len(wire'[c])])]
               /\ wire'[c][Len(wire'[c])].id = None
               /\ authenticated' = authenticated
               /\ schedVars' = schedVars
               /\ touched' = touched
               /\ pc'[c] = "read" /\ ~wclosed'[c] /\ c \in connections'
       ]_vars

\* a message with the valid token and no id was refused; the connection is
\* still unauthenticated and open, and no task was submitted
C31_Witness ==
  \E c \in Conns :
    /\ goodTok[c] /\ current_token # None
    /\ Len(wire[c]) = 1
    /\ wire[c][1].error = "missing_id" /\ wire[c][1].id = None
    /\ ~authenticated[c]
    /\ pc[c] = "read" /\ ~wclosed[c] /\ c \in connections
    /\ Len(task) = 0

\* C32: while the request of one connection (handler, code, or code with
\* stream) is being executed for it, the event loop is not blocked: another
\* connection of the same loop that has a frame to read can run, so its
\* frame is read, processed and answered before the first request is done.
C32_LoopNotBlocked ==
  \A c, b \in Conns :
    (/\ c # b
     /\ pc[c] \in {"await", "exec"}
     /\ pc[b] = "read" /\ ~wclosed[b]
     /\ owner[b] = owner[c] /\ LoopRuns(owner[b])
     /\ ~ChunksPending(b))
      => CanRun(b)

\* C33: when an outgoing response (here: the response of a handler whose
\* result cannot be serialized) holds a value that cannot be serialized,
\* the client receives exactly one frame for it: the fallback error
\* response with the request's id, whose error text names the path and the
\* type of the offending value.
C33_UnserializableLocalized ==
  [][\A c \in Conns :
       (/\ pc[c] = "await" /\ ~wclosed[c]
        /\ task[wt[c]].outcome = "unser" /\ fut[wt[c]] = "result"
        /\ pc'[c] # "await")
         => wire' = [wire EXCEPT ![c] = Append(@, FallbackResponse(req[c].id))]
    ]_vars

\* C34: chunk sends still pending when their connection closes are
\* discarded: once a connection is closed no frame is written to it, and a
\* pending send that fires afterwards changes nothing of the event loop or
\* of the other connections.
C34_PendingChunksDiscarded ==
  [][\A c \in Conns :
       pc[c] = "closed"
         => /\ wire'[c] = wire[c]
            /\ (/\ chunkq # <<>> /\ Head(chunkq).conn = c
                /\ cur = None /\ chunkq' = Tail(chunkq))
                 => /\ wire' = wire /\ pc' = pc /\ cur' = cur
                    /\ authenticated' = authenticated
                    /\ connections' = connections /\ tstate' = tstate
    ]_vars

\* C35: over every sequence of start_server and stop_server calls at most
\* one server thread is alive; when stop_server has returned no server
\* thread is alive or accepting connections any more; and is_server_running
\* is true exactly when a server thread is alive.
C35_OneServerThread ==
  /\ [](Cardinality({i \in Threads : tstate[i] \notin {"unborn", "dead"}}) <= 1)
  /\ [](is_server_running <=> \E i \in Threads : tstate[i] \notin {"unborn", "dead"})
  /\ [][(ctl = "join" /\ ctl' = "idle")
          => \A i \in Threads : tstate'[i] \in {"unborn", "dead"}
       ]_vars

\* C36: text written to standard output by one client code execution is
\* delivered only to the request that started it: the output field of a
\* code response holds only writes made by the task of that request of that
\* connection, under every interleaving with a streaming execution of
\* another connection.
C36_OutputStaysWithRequest ==
  \A c \in Conns : \A i \in 1..Len(wire[c]) :
    \A k \in 1..Len(wire[c][i].data) :
      /\ wire[c][i].data[k].k = "task"
      /\ task[wire[c][i].data[k].n].conn = c
      /\ task[wire[c][i].data[k].n].req = wire[c][i].id

\* C37: every code execution leaves sys.stdout as it found it: when a
\* streaming execution ends, sys.stdout is the stream that was installed
\* when it began; when a non-streaming execution ends, with a result or
\* with an error, sys.stdout is no longer the capture that the execution
\* made for itself.
C37_StdoutRestored ==
  /\ [][\A c \in Conns :
          (pc[c] = "exec" /\ pc'[c] # "exec") => sys_stdout' = old_stdout[c]
       ]_vars
  /\ [][(rpc = "run" /\ task[rcur].kind = "code" /\ rpc' # "run")
          => sys_stdout' # Buf(rcur)
       ]_vars

\* C38: frames on a connection are never interleaved: the bytes handed to
\* the writer of a connection are always a sequence of whole frames, each a
\* length prefix followed by its own payload, with the declared length
\* equal to the byte length of the payload, also when chunk-send tasks and
\* the handler loop write to the same connection.
C38_WholeFrames ==
  \A c \in Conns :
    /\ Len(sent[c]) = 2 * Len(wire[c])
    /\ \A k \in 1..Len(wire[c]) :
         /\ sent[c][2 * k - 1].part = "length"
         /\ sent[c][2 * k].part = "payload"
         /\ sent[c][2 * k - 1].n = sent[c][2 * k].n
         /\ sent[c][2 * k].n = Size(wire[c][k])
         /\ sent[c][2 * k].id = wire[c][k].id

\* two chunk-send tasks and the handler loop (the terminal frame and the
\* answer to a second request) have written four frames to one connection
C38_Witness ==
  \E c \in Conns :
    /\ Len(sent[c]) = 8
    /\ \E i, j \in 1..Len(wire[c]) :
         /\ i # j
         /\ wire[c][i].chunk # None /\ wire[c][j].chunk # None
    /\ \E i, j \in 1..Len(wire[c]) :
         /\ i # j
         /\ wire[c][i].chunk = None /\ wire[c][j].chunk = None
         /\ wire[c][i].id # wire[c][j].id

\* C39: stop_server leaves the Task Scheduler untouched: its steps change
\* nothing of the queue, the futures and the registration of the drain
\* callback; queued tasks are never cancelled and leave the queue only when
\* the drain routine on the host thread takes them, so tasks queued at the
\* stop are still executed by later idle ticks although their connections
\* are closed.
C39_StopLeavesScheduler ==
  /\ [][(ctl' # ctl) => (schedVars' = schedVars /\ outVars' = outVars)]_vars
  /\ [][(Len(TASKS') < Len(TASKS))
          => (rpc = "loop" /\ TASKS' = Tail(TASKS) /\ ctl' = ctl)
       ]_vars
  /\ [](\A t \in 1..Len(fut) : fut[t] # "cancelled")
  /\ [](TASKS # <<>> => registered)

\* stop_server has returned, the server thread has ended, and the host
\* thread is executing a task of a connection that the stop removed
C39_Witness ==
  /\ ctl = "idle" /\ server_thread = None /\ nstarts > 0
  /\ \A i \in Threads : tstate[i] \in {"unborn", "dead"}
  /\ rpc = "run"
  /\ task[rcur].conn \in Conns
  /\ task[rcur].conn \notin connections
  /\ pc[task[rcur].conn] = "await"

====
